---- MODULE Spec2Model ----
(***************************************************************************)
(* Model of binocular: the event loop of src/app.rs (key handling, search  *)
(* tasks, the delivery channel), the ripgrep output parser of execute_rg   *)
(* with the RgItemBuilder of src/rg_item.rs, and the terminal life cycle   *)
(* of src/main.rs and src/tui.rs.                                          *)
(*                                                                         *)
(* Text is modelled as a sequence of one-character strings, so that        *)
(* splitting, trimming, number parsing and joining are computed the way    *)
(* the code computes them.                                                 *)
(***************************************************************************)
EXTENDS Integers, Sequences, FiniteSets, TLC

VARIABLES
    pc,               \* position of main(): config, setup, render, select, shutdown,
                      \* exited (main returned), panicked (the control task panicked)
    res,              \* the Result of main()/run(): "none" while running, "Ok",
                      \* or the context message of the error returned
    raw_mode,         \* terminal raw mode is enabled
    alt_screen,       \* terminal is in the alternate screen
    input,            \* App.input value (the query text)
    cursor,           \* App.input cursor position
    results,          \* App.results
    state,            \* App.state.selected(): None or Some(i)
    show_help,        \* App.show_help
    tasks,            \* the spawned search tasks, by submission number
    chan,             \* the mpsc channel tx -> rx
    delivered,        \* history: submission numbers in the order handle_results applied them
    editor,           \* the "--goto" argument of the editor spawned in this loop iteration
    overflow_checks,  \* the build traps integer overflow (debug) or wraps (release)
    stdout,           \* parser run: the text handed to the parser
    parser            \* parser run: the locals of execute_rg's parsing loop

appVars == <<pc, res, raw_mode, alt_screen, input, cursor, results, state,
             show_help, tasks, chan, delivered, editor>>
parseVars == <<stdout, parser>>
vars == <<pc, res, raw_mode, alt_screen, input, cursor, results, state,
          show_help, tasks, chan, delivered, editor, overflow_checks,
          stdout, parser>>

\* ------------------------------------------------------------------------
\* Option values and integer widths
\* ------------------------------------------------------------------------
Range(f) == {f[i] : i \in DOMAIN f}

None == <<>>
Some(x) == <<x>>
IsSome(o) == o # <<>>
Unwrap(o) == o[1]

CTX_LINES == 4
CHANNEL_CAPACITY == 100
U16Modulus == 65536
\* usize is 64 bits wide on the targets the program runs on; TLC integers
\* have 32 bits, so the model keeps a 30-bit word.  Only the wrapped value
\* of 0 - 1 (the largest word) is ever produced.
UsizeModulus == 1073741824

\* ------------------------------------------------------------------------
\* Characters and strings
\* ------------------------------------------------------------------------
DigitChars == <<"0", "1", "2", "3", "4", "5", "6", "7", "8", "9">>

is_ascii_digit(c) == \E i \in 1..10 : DigitChars[i] = c

DigitVal(c) == (CHOOSE i \in 1..10 : DigitChars[i] = c) - 1

\* format!("{}", n) of an unsigned number
RECURSIVE FormatNum(_)
FormatNum(n) ==
    IF n < 10 THEN <<DigitChars[n + 1]>>
    ELSE FormatNum(n \div 10) \o <<DigitChars[(n % 10) + 1]>>

\* index of the first occurrence of c in s, 0 when there is none
Find(s, c) ==
    IF \E i \in 1..Len(s) : s[i] = c
    THEN CHOOSE i \in 1..Len(s) : s[i] = c /\ \A j \in 1..(i - 1) : s[j] # c
    ELSE 0

\* str::split('\n'): always at least one piece, a trailing separator
\* gives a trailing empty piece
RECURSIVE Split(_, _)
Split(s, c) ==
    LET i == Find(s, c)
    IN  IF i = 0 THEN <<s>>
        ELSE <<SubSeq(s, 1, i - 1)>> \o Split(SubSeq(s, i + 1, Len(s)), c)

\* [String]::join(sep)
RECURSIVE Join(_, _)
Join(ss, c) ==
    IF ss = <<>> THEN <<>>
    ELSE IF Len(ss) = 1 THEN ss[1]
    ELSE ss[1] \o <<c>> \o Join(Tail(ss), c)

starts_with_digit(l) == l # <<>> /\ is_ascii_digit(l[1])

RECURSIVE trim_start_matches_digit(_)
trim_start_matches_digit(l) ==
    IF l # <<>> /\ is_ascii_digit(Head(l))
    THEN trim_start_matches_digit(Tail(l))
    ELSE l

\* str::split_once(c): None, or the text before and after the first c
split_once(l, c) ==
    LET i == Find(l, c)
    IN  IF i = 0 THEN None
        ELSE Some(<<SubSeq(l, 1, i - 1), SubSeq(l, i + 1, Len(l))>>)

\* str::parse::<u16>(): None for the empty string, a non-digit, or a value
\* above u16::MAX (the overflow is detected digit by digit)
RECURSIVE ParseDigits(_, _)
ParseDigits(s, acc) ==
    IF s = <<>> THEN Some(acc)
    ELSE IF ~is_ascii_digit(Head(s)) THEN None
    ELSE LET v == acc * 10 + DigitVal(Head(s))
         IN  IF v >= U16Modulus THEN None ELSE ParseDigits(Tail(s), v)

parse_u16(s) == IF s = <<>> THEN None ELSE ParseDigits(s, 0)

\* ------------------------------------------------------------------------
\* RgItemBuilder (src/rg_item.rs)
\* ------------------------------------------------------------------------
EmptyCtx == [n \in {} |-> <<>>]

ctx_insert(ctx, n, line) ==
    [k \in DOMAIN ctx \cup {n} |-> IF k = n THEN line ELSE ctx[k]]

\* the ctx lines with numbers lo..hi (inclusive), in ascending order
RECURSIVE ctx_lines(_, _, _)
ctx_lines(ctx, lo, hi) ==
    IF lo > hi THEN <<>>
    ELSE (IF lo \in DOMAIN ctx THEN <<ctx[lo]>> ELSE <<>>)
         \o ctx_lines(ctx, lo + 1, hi)

builder(filename, line_number, matched_line) ==
    [filename |-> filename, line_number |-> line_number,
     matched_line |-> matched_line, pre_context |-> <<>>, post_context |-> <<>>]

saturating_sub(a, b) == IF a >= b THEN a - b ELSE 0

\* add_pre_context with an inclusive range, which takes in the match line
add_pre_context_inclusive(b, ctx) ==
    [b EXCEPT !.pre_context =
        @ \o ctx_lines(ctx, saturating_sub(b.line_number, CTX_LINES), b.line_number)]

add_pre_context(b, ctx) ==
    [b EXCEPT !.pre_context =
        @ \o ctx_lines(ctx, saturating_sub(b.line_number, CTX_LINES), b.line_number - 1)]

\* line_number + 1 ..= line_number + CTX_LINES in u16: the sums overflow
\* when line_number + CTX_LINES exceeds u16::MAX
post_overflows(b) == b.line_number + CTX_LINES >= U16Modulus

\* the wrapping build: both bounds are taken modulo 2^16, and a range whose
\* start exceeds its end is empty
add_post_context(b, ctx) ==
    [b EXCEPT !.post_context =
        @ \o ctx_lines(ctx, (b.line_number + 1) % U16Modulus,
                            (b.line_number + CTX_LINES) % U16Modulus)]

build(b) ==
    [filename |-> b.filename, line_number |-> b.line_number,
     matched_line |-> b.matched_line,
     context |-> Join(b.pre_context \o <<b.matched_line>> \o b.post_context, "\n")]

\* ------------------------------------------------------------------------
\* The parsing loop of execute_rg (src/app.rs)
\* ------------------------------------------------------------------------
\* Error messages of execute_rg
NotInstalled == "ripgrep is not installed"
FailedToRun == "Failed to run ripgrep"
NoFirstLine == "first output line should be a file name"
NoMatchedChar == "output line should contain the matched character"
BadDigits == "output line should start with digits"
BadLine == "expected a context or a matching line"
Overflow == "attempt to add with overflow"

\* the locals after `output.next()`: the first piece is the file name
parse_start(text) ==
    LET output == Split(text, "\n")
    IN  [status |-> "scan", error |-> "", output |-> Tail(output),
         file |-> Head(output), ctx |-> EmptyCtx, builder |-> None,
         results |-> <<>>]

fail(st, msg) == [st EXCEPT !.status = "err", !.error = msg]
panic(st, msg) == [st EXCEPT !.status = "panic", !.error = msg]

\* results.push(builder.add_post_context(&ctx).build()), which panics in a
\* build with overflow checks when the range bounds overflow
finalize(st, checks) ==
    IF ~IsSome(st.builder) THEN st
    ELSE IF checks /\ post_overflows(Unwrap(st.builder)) THEN panic(st, Overflow)
    ELSE [st EXCEPT !.results =
             Append(@, build(add_post_context(Unwrap(st.builder), st.ctx)))]

\* a line "<digits>:<text>" or "<digits>-<text>"
numbered_line(st, output_line, c, checks) ==
    LET sp == split_once(output_line, c)
    IN  IF ~IsSome(sp) THEN fail(st, NoMatchedChar)
        ELSE LET line == Unwrap(sp)[2]
                 num == parse_u16(Unwrap(sp)[1])
             IN  IF ~IsSome(num) THEN fail(st, BadDigits)
                 ELSE LET line_number == Unwrap(num)
                          st1 == [st EXCEPT !.ctx = ctx_insert(@, line_number, line)]
                      IN  IF c # ":" THEN st1
                          ELSE LET st2 == finalize(st1, checks)
                               IN  IF st2.status # "scan" THEN st2
                                   ELSE [st2 EXCEPT !.builder =
                                            Some(add_pre_context(
                                                builder(st2.file, line_number, line),
                                                st2.ctx))]

\* one iteration of `for output_line in output`
parse_line(st, output_line, checks) ==
    IF starts_with_digit(output_line)
    THEN LET rest == trim_start_matches_digit(output_line)
         IN  IF rest # <<>> /\ Head(rest) \in {"-", ":"}
             THEN numbered_line(st, output_line, Head(rest), checks)
             ELSE fail(st, BadLine)
    ELSE IF output_line # <<>>
    THEN [st EXCEPT !.file = output_line]
    ELSE [st EXCEPT !.ctx = EmptyCtx]

\* after the loop: add the last item and return Ok(results)
parse_end(st, checks) ==
    LET st1 == finalize(st, checks)
    IN  IF st1.status # "scan" THEN st1
        ELSE [st1 EXCEPT !.status = "ok", !.builder = None]

parse_step(st, checks) ==
    IF st.output = <<>> THEN parse_end(st, checks)
    ELSE parse_line([st EXCEPT !.output = Tail(@)], Head(st.output), checks)

RECURSIVE parse_run(_, _)
parse_run(st, checks) ==
    IF st.status # "scan" THEN st ELSE parse_run(parse_step(st, checks), checks)

\* the Ok(output) arm of execute_rg applied to the text of output.stdout
parse_output(text, checks) == parse_run(parse_start(text), checks)

\* ------------------------------------------------------------------------
\* Parser runs: the texts handed to the parser
\* ------------------------------------------------------------------------
MaxLines == 3

FirstHeader == <<"F">>
NextHeader == <<"G">>
TextChars == <<"a", "b", "c", "d", "e", "h", "i", "j", "k", "l">>

\* the text of the i-th line after the header: distinct per position, and
\* holding a ':' so that splitting at the first separator is observable
TextAt(i) == <<"t", ":", TextChars[i]>>

LineNums == {1, 2, 5, 7, 65535}

\* line shapes: a prefix, followed or not by the text of the position
NumberedShapes ==
    {[pre |-> FormatNum(n) \o <<s>>, txt |-> TRUE] : n \in LineNums, s \in {"-", ":"}}
BadShapes ==
    { [pre |-> <<"3", "x">>, txt |-> FALSE],
      [pre |-> <<"3">>, txt |-> FALSE],
      [pre |-> FormatNum(65536) \o <<":">>, txt |-> TRUE] }
OtherShapes ==
    { [pre |-> <<>>, txt |-> FALSE], [pre |-> NextHeader, txt |-> FALSE] }
LineShapes == NumberedShapes \cup BadShapes \cup OtherShapes

ShapeLines(shapes) ==
    [i \in 1..Len(shapes) |->
        shapes[i].pre \o (IF shapes[i].txt THEN TextAt(i) ELSE <<>>)]

\* a header line followed by up to MaxLines lines of any shape
GeneralOutputs ==
    { Join(<<FirstHeader>> \o ShapeLines(shapes), "\n") :
        shapes \in UNION {[1..k -> LineShapes] : k \in 0..MaxLines} }

\* a header line followed by one unbroken block: context lines m-p..m-1,
\* the match line m, context lines m+1..m+q; nl adds the final newline
BlockLine(m, p, j) ==
    FormatNum(m - p + j - 1) \o <<IF j = p + 1 THEN ":" ELSE "-">> \o TextAt(j)

SingleBlock(m, p, q, nl) ==
    Join(<<FirstHeader>> \o [j \in 1..(p + q + 1) |-> BlockLine(m, p, j)], "\n")
    \o (IF nl THEN <<"\n">> ELSE <<>>)

BlockMatches == {4, 10, 65531, 65533}

BlockParams ==
    { x \in BlockMatches \X (0..CTX_LINES) \X (0..CTX_LINES) \X BOOLEAN :
        x[1] + x[3] < U16Modulus }

BlockOutputs == { SingleBlock(x[1], x[2], x[3], x[4]) : x \in BlockParams }

\* a header line followed by two match lines a < b, at most CTX_LINES apart
TwoMatches(a, b) ==
    Join(<<FirstHeader, FormatNum(a) \o <<":">> \o TextAt(1),
           FormatNum(b) \o <<":">> \o TextAt(2)>>, "\n")

PairFirsts == {1, 5, 65530, 65533}

MatchPairs ==
    { x \in { <<a, a + d>> : a \in PairFirsts, d \in 1..CTX_LINES } :
        x[2] < U16Modulus }

PairOutputs == { TwoMatches(x[1], x[2]) : x \in MatchPairs }

ParserInputs == GeneralOutputs \cup BlockOutputs \cup PairOutputs

Idle == [status |-> "idle"]

\* ------------------------------------------------------------------------
\* The application state after App::new, before main() has run
\* ------------------------------------------------------------------------
AppInit ==
    /\ pc = "config"
    /\ res = "none"
    /\ raw_mode = FALSE
    /\ alt_screen = FALSE
    /\ input = <<>>
    /\ cursor = 0
    /\ results = <<>>
    /\ state = None
    /\ show_help = FALSE
    /\ tasks = <<>>
    /\ chan = <<>>
    /\ delivered = <<>>
    /\ editor = None

\* ------------------------------------------------------------------------
\* Parser specification: execute_rg's loop run on one text, line by line
\* ------------------------------------------------------------------------
ParserInit ==
    /\ AppInit
    /\ overflow_checks \in BOOLEAN
    /\ stdout \in ParserInputs
    /\ parser = [status |-> "start"]

ParseStart ==
    /\ parser.status = "start"
    /\ parser' = parse_start(stdout)
    /\ UNCHANGED <<appVars, overflow_checks, stdout>>

ParseLine ==
    /\ parser.status = "scan"
    /\ parser.output # <<>>
    /\ parser' = parse_step(parser, overflow_checks)
    /\ UNCHANGED <<appVars, overflow_checks, stdout>>

ParseEnd ==
    /\ parser.status = "scan"
    /\ parser.output = <<>>
    /\ parser' = parse_step(parser, overflow_checks)
    /\ UNCHANGED <<appVars, overflow_checks, stdout>>

ParserNext == ParseStart \/ ParseLine \/ ParseEnd

ParserSpec == ParserInit /\ [][ParserNext]_vars

ParserDone == parser.status \in {"ok", "err", "panic"}

\* ------------------------------------------------------------------------
\* Search tasks: execute_rg (src/app.rs) and what `rg` can answer
\* ------------------------------------------------------------------------
MaxSubmissions == 2
MaxNav == 1

ThreeMatches ==
    Join(<<FirstHeader>> \o [j \in 1..3 |-> FormatNum(j) \o <<":">> \o TextAt(j)]
         \o <<<<>>>>, "\n")
MalformedRun ==
    Join(<<FirstHeader, <<"1", ":">> \o TextAt(1), <<"3", "x">>, <<>>>>, "\n")
HighLineRun ==
    Join(<<FirstHeader, FormatNum(65535) \o <<":">> \o TextAt(1),
           <<"1", ":">> \o TextAt(2), <<>>>>, "\n")

\* the outcomes of Command::output().await: the launch fails, or the process
\* runs and leaves an exit status and its standard output (ripgrep exits
\* with 2 on an error, such as a pattern that is no regular expression)
CommandOutcomes ==
    { [kind |-> "NotFound"], [kind |-> "IoError"] }
    \cup { [kind |-> "Output", status |-> 0, stdout |-> t] :
             t \in {ThreeMatches, MalformedRun, HighLineRun} }
    \cup { [kind |-> "Output", status |-> c, stdout |-> <<>>] : c \in {2} }

\* parse_output on the texts above, tabulated once
RunStdouts == {ThreeMatches, MalformedRun, HighLineRun, <<>>}
ParseTable == [t \in RunStdouts, c \in BOOLEAN |-> parse_output(t, c)]

\* execute_rg(input) with the answer `out` of the subprocess: the Result it
\* returns (or the panic it raises) and what was launched
\* execute_rg past the empty-input return: the command is launched and its
\* standard output parsed
launch_rg(out, checks) ==
    IF out.kind = "NotFound"
    THEN [result |-> "Err", items |-> <<>>, error |-> NotInstalled, proc |-> Some(out)]
    ELSE IF out.kind = "IoError"
    THEN [result |-> "Err", items |-> <<>>, error |-> FailedToRun, proc |-> Some(out)]
    ELSE LET st == ParseTable[out.stdout, checks]
         IN  IF st.status = "ok"
             THEN [result |-> "Ok", items |-> st.results, error |-> "", proc |-> Some(out)]
             ELSE [result |-> IF st.status = "panic" THEN "Panic" ELSE "Err",
                   items |-> <<>>, error |-> st.error, proc |-> Some(out)]

\* execute_rg without the empty-input return
execute_rg_always_launches(query, out, checks) ==
    launch_rg(out, checks)

\* execute_rg taking a command that is not found for a search without matches
execute_rg_ignores_not_found(query, out, checks) ==
    IF query = <<>>
    THEN [result |-> "Ok", items |-> <<>>, error |-> "", proc |-> None]
    ELSE IF out.kind = "NotFound"
    THEN [result |-> "Ok", items |-> <<>>, error |-> "", proc |-> Some(out)]
    ELSE launch_rg(out, checks)

execute_rg(query, out, checks) ==
    IF query = <<>>
    THEN [result |-> "Ok", items |-> <<>>, error |-> "", proc |-> None]
    ELSE launch_rg(out, checks)

\* the task spawned by handle_key_event, before it has run
new_task(query) ==
    [query |-> query, phase |-> "spawned", result |-> "pending",
     items |-> <<>>, error |-> "", proc |-> None]

\* ------------------------------------------------------------------------
\* Terminal (src/tui.rs)
\* ------------------------------------------------------------------------
\* Tui::setup, failing at step `fail_at` ("raw", "alt", "term") or not at all
tui_setup(fail_at) ==
    [ok |-> fail_at = "none",
     raw_mode |-> fail_at # "raw",
     alt_screen |-> fail_at \notin {"raw", "alt"}]

\* Tui::shutdown: raw mode is disabled and the alternate screen is left (the
\* two terminal calls are taken to succeed; the code only prints a failure)
tui_shutdown ==
    [raw_mode |-> FALSE, alt_screen |-> FALSE]

\* ------------------------------------------------------------------------
\* App (src/app.rs)
\* ------------------------------------------------------------------------
InputChars == {"x"}
EditKeys == InputChars \cup {"Backspace"}
ListKeys == {"Up", "Down", "Enter"}

\* Input::handle_event: a character is inserted at the cursor, Backspace
\* deletes the character before the cursor (none at the start of the input),
\* any other key is ignored
input_handle_event(value, cur, key) ==
    IF key \in InputChars
    THEN [value |-> SubSeq(value, 1, cur) \o <<key>> \o SubSeq(value, cur + 1, Len(value)),
          cursor |-> cur + 1]
    ELSE IF key = "Backspace" /\ cur > 0
    THEN [value |-> SubSeq(value, 1, cur - 1) \o SubSeq(value, cur + 1, Len(value)),
          cursor |-> cur - 1]
    ELSE [value |-> value, cursor |-> cur]

\* a - b in usize: None when a build with overflow checks panics
usize_sub(a, b, checks) ==
    IF a >= b THEN Some(a - b)
    ELSE IF checks THEN None
    ELSE Some((a - b) % UsizeModulus)

\* the Up arm stopping at the first item
select_previous_stops_at_first(selected, len, checks) ==
    IF ~IsSome(selected) \/ Unwrap(selected) = 0 THEN Some(Some(0))
    ELSE Some(Some(Unwrap(selected) - 1))

\* the Up arm: None when it panics, else Some(the new selection)
select_previous(selected, len, checks) ==
    IF ~IsSome(selected) THEN Some(Some(0))
    ELSE IF Unwrap(selected) = 0
    THEN LET last == usize_sub(len, 1, checks)
         IN  IF IsSome(last) THEN Some(Some(Unwrap(last))) ELSE None
    ELSE Some(Some(Unwrap(selected) - 1))

\* the Down arm: None when it panics, else Some(the new selection)
select_next(selected, len, checks) ==
    IF ~IsSome(selected) THEN Some(Some(0))
    ELSE LET last == usize_sub(len, 1, checks)
         IN  IF ~IsSome(last) THEN None
             ELSE IF Unwrap(selected) >= Unwrap(last) THEN Some(Some(0))
             ELSE Some(Some(Unwrap(selected) + 1))

\* handle_results keeping the displayed list when an empty set arrives
handle_results_keeps_on_empty(rs) ==
    IF rs = <<>>
    THEN [results |-> results, state |-> state]
    ELSE [results |-> rs, state |-> Some(0)]

\* handle_results adding the delivered records to the displayed ones
handle_results_appends(rs) ==
    [results |-> results \o rs, state |-> IF results \o rs = <<>> THEN None ELSE Some(0)]

\* handle_results selecting the first item only when nothing is selected
handle_results_selects_when_none(rs) ==
    [results |-> rs,
     state |-> IF rs = <<>> THEN None ELSE IF IsSome(state) THEN state ELSE Some(0)]

\* handle_results leaving the selection where it was
handle_results_keeps_selection(rs) ==
    [results |-> rs, state |-> state]

\* handle_results: the new list and the new selection
handle_results(rs) ==
    [results |-> rs, state |-> IF rs = <<>> THEN None ELSE Some(0)]

\* selected_item reading the first item whatever is selected
selected_index_first(rs, selected) ==
    IF rs = <<>> THEN None ELSE Some(0)

\* selected_item: the index it reads, None for an empty list
selected_index(rs, selected) ==
    IF rs = <<>> THEN None
    ELSE Some(IF IsSome(selected) THEN Unwrap(selected) ELSE 0)

\* the slice index of selected_item is out of bounds
selected_item_panics(rs, selected) ==
    IsSome(selected_index(rs, selected)) /\ Unwrap(selected_index(rs, selected)) >= Len(rs)

selected_item(rs, selected) ==
    IF ~IsSome(selected_index(rs, selected)) THEN None
    ELSE Some(rs[Unwrap(selected_index(rs, selected)) + 1])

\* format!("{}:{}", item.filename(), item.line_number())
goto_arg(item) == item.filename \o <<":">> \o FormatNum(item.line_number)

\* the selection stays within MaxNav of the ends of the word while it
\* drifts over an empty list
NavBounded(selected) ==
    \/ ~IsSome(selected)
    \/ Unwrap(selected) < Len(results)
    \/ Unwrap(selected) <= MaxNav
    \/ Unwrap(selected) >= UsizeModulus - 1 - MaxNav

Alive == pc \in {"render", "select"}

\* a panic: the hook installed by main() runs Tui::shutdown
HookShutdown ==
    /\ raw_mode' = tui_shutdown.raw_mode
    /\ alt_screen' = tui_shutdown.alt_screen

\* a panic on the control task ends the process
MainPanics ==
    /\ HookShutdown
    /\ pc' = "panicked"
    /\ res' = res
    /\ UNCHANGED <<tasks, chan, delivered>>

\* run() returns: main() goes on to Tui::shutdown and returns; nothing
\* receives from the channel any more, and the tasks are dropped with the
\* runtime
RunReturns(r) ==
    /\ pc' = "shutdown"
    /\ res' = r
    /\ tasks' = <<>>
    /\ chan' = <<>>
    /\ delivered' = <<>>

\* the next loop iteration
Continue ==
    /\ pc' = "render"
    /\ res' = res


\* ------------------------------------------------------------------------
\* main() (src/main.rs): configuration, terminal setup, teardown
\* ------------------------------------------------------------------------
\* the context messages of the errors main() and run() return
ConfigFailed == "Failed to load binocular configuration"
SetupFailed == "Failed to setup terminal"
RenderFailed == "Failed to render application window"
EventFailed == "Failed to read terminal event"
EditorFailed == "Failed to open file in VS Code"

Init ==
    /\ AppInit
    /\ overflow_checks \in BOOLEAN
    /\ stdout = <<>>
    /\ parser = Idle

\* Config::load()?: a failure leaves main() before the terminal is touched
ConfigLoad ==
    /\ pc = "config"
    /\ \E ok \in BOOLEAN :
        IF ok THEN pc' = "setup" /\ res' = res
        ELSE pc' = "exited" /\ res' = ConfigFailed
    /\ UNCHANGED <<raw_mode, alt_screen, input, cursor, results, state, show_help,
                   tasks, chan, delivered, editor, overflow_checks, parseVars>>

\* Tui::setup(&config)?: on a failure main() returns at once
TuiSetup ==
    /\ pc = "setup"
    /\ \E fail_at \in {"none", "raw", "alt", "term"} :
        /\ raw_mode' = tui_setup(fail_at).raw_mode
        /\ alt_screen' = tui_setup(fail_at).alt_screen
        /\ IF tui_setup(fail_at).ok THEN pc' = "render" /\ res' = res
           ELSE pc' = "exited" /\ res' = SetupFailed
    /\ UNCHANGED <<input, cursor, results, state, show_help,
                   tasks, chan, delivered, editor, overflow_checks, parseVars>>

\* Tui::shutdown() after run() has returned, then main() returns res: the
\* App, its channel and the runtime with its tasks are dropped
TuiShutdown ==
    /\ pc = "shutdown"
    /\ raw_mode' = tui_shutdown.raw_mode
    /\ alt_screen' = tui_shutdown.alt_screen
    /\ pc' = "exited"
    /\ input' = <<>>
    /\ cursor' = 0
    /\ results' = <<>>
    /\ state' = None
    /\ show_help' = FALSE
    /\ tasks' = <<>>
    /\ chan' = <<>>
    /\ delivered' = <<>>
    /\ editor' = None
    /\ UNCHANGED <<res, overflow_checks, parseVars>>

\* ------------------------------------------------------------------------
\* App::run: render, then one event
\* ------------------------------------------------------------------------
Render ==
    /\ pc = "render"
    /\ IF selected_item_panics(results, state) THEN MainPanics
       ELSE /\ \E ok \in BOOLEAN :
                 IF ok THEN pc' = "select" /\ res' = res
                            /\ UNCHANGED <<tasks, chan, delivered>>
                 ELSE RunReturns(RenderFailed)
            /\ UNCHANGED <<raw_mode, alt_screen>>
    /\ editor' = None
    /\ UNCHANGED <<input, cursor, results, state, show_help,
                   overflow_checks, parseVars>>

\* Escape handled like the navigation keys, only with the help hidden
KeyEsc_when_help_hidden ==
    /\ pc = "select"
    /\ ~show_help
    /\ RunReturns("Ok")
    /\ UNCHANGED <<raw_mode, alt_screen, input, cursor, results, state, show_help,
                   editor, overflow_checks, parseVars>>

\* Escape: break, run() returns Ok(())
KeyEsc ==
    /\ pc = "select"
    /\ RunReturns("Ok")
    /\ UNCHANGED <<raw_mode, alt_screen, input, cursor, results, state, show_help,
                   editor, overflow_checks, parseVars>>

\* the event stream yields an error: run() returns it
EventError ==
    /\ pc = "select"
    /\ RunReturns(EventFailed)
    /\ UNCHANGED <<raw_mode, alt_screen, input, cursor, results, state, show_help,
                   editor, overflow_checks, parseVars>>

\* an event that is no key event (resize, mouse, focus)
OtherEvent ==
    /\ pc = "select"
    /\ Continue
    /\ UNCHANGED <<raw_mode, alt_screen, input, cursor, results, state, show_help,
                   tasks, chan, delivered, editor, overflow_checks, parseVars>>

\* (KeyCode::Up, false)
KeyUp ==
    /\ pc = "select"
    /\ ~show_help
    /\ LET r == select_previous(state, Len(results), overflow_checks)
       IN  IF ~IsSome(r) THEN MainPanics /\ state' = state
           ELSE /\ NavBounded(Unwrap(r))
                /\ state' = Unwrap(r)
                /\ Continue
                /\ UNCHANGED <<raw_mode, alt_screen>>
    /\ UNCHANGED <<input, cursor, results, show_help,
                   tasks, chan, delivered, editor, overflow_checks, parseVars>>

\* (KeyCode::Down, false)
KeyDown ==
    /\ pc = "select"
    /\ ~show_help
    /\ LET r == select_next(state, Len(results), overflow_checks)
       IN  IF ~IsSome(r) THEN MainPanics /\ state' = state
           ELSE /\ NavBounded(Unwrap(r))
                /\ state' = Unwrap(r)
                /\ Continue
                /\ UNCHANGED <<raw_mode, alt_screen>>
    /\ UNCHANGED <<input, cursor, results, show_help,
                   tasks, chan, delivered, editor, overflow_checks, parseVars>>

\* (KeyCode::Enter, false): spawn the editor on the selected item; a failed
\* spawn is returned with `?` and ends run()
KeyEnter ==
    /\ pc = "select"
    /\ ~show_help
    /\ IF selected_item_panics(results, state)
       THEN MainPanics /\ editor' = editor
       ELSE IF ~IsSome(selected_item(results, state))
       THEN Continue /\ UNCHANGED <<raw_mode, alt_screen, editor, tasks, chan, delivered>>
       ELSE /\ \E spawned \in BOOLEAN :
                 IF spawned
                 THEN /\ editor' = Some(goto_arg(Unwrap(selected_item(results, state))))
                      /\ Continue
                      /\ UNCHANGED <<tasks, chan, delivered>>
                 ELSE editor' = editor /\ RunReturns(EditorFailed)
            /\ UNCHANGED <<raw_mode, alt_screen>>
    /\ UNCHANGED <<input, cursor, results, state, show_help,
                   overflow_checks, parseVars>>

\* (KeyCode::Char('?'), _)
KeyHelp ==
    /\ pc = "select"
    /\ show_help' = ~show_help
    /\ Continue
    /\ UNCHANGED <<raw_mode, alt_screen, input, cursor, results, state,
                   tasks, chan, delivered, editor, overflow_checks, parseVars>>

\* the last arm handling the key whether the help is shown or not
KeyOther_behind_help(key) ==
    /\ pc = "select"
    /\ key \in ListKeys => show_help
    /\ Len(tasks) < MaxSubmissions
    /\ input' = input_handle_event(input, cursor, key).value
    /\ cursor' = input_handle_event(input, cursor, key).cursor
    /\ tasks' = Append(tasks, new_task(input'))
    /\ Continue
    /\ UNCHANGED <<raw_mode, alt_screen, results, state, show_help,
                   chan, delivered, editor, overflow_checks, parseVars>>

\* (_, show_help): any other key, and Up, Down, Enter while the help is
\* shown; with the help hidden the input handles the key and a search task
\* is spawned with the input's value
KeyOther(key) ==
    /\ pc = "select"
    /\ key \in ListKeys => show_help
    /\ IF show_help THEN UNCHANGED <<input, cursor, tasks>>
       ELSE /\ Len(tasks) < MaxSubmissions
            /\ input' = input_handle_event(input, cursor, key).value
            /\ cursor' = input_handle_event(input, cursor, key).cursor
            /\ tasks' = Append(tasks, new_task(input'))
    /\ Continue
    /\ UNCHANGED <<raw_mode, alt_screen, results, state, show_help,
                   chan, delivered, editor, overflow_checks, parseVars>>

\* the delivery arm starting the input over
RecvResults_resets_input ==
    /\ pc = "select"
    /\ chan # <<>>
    /\ results' = handle_results(Head(chan).items).results
    /\ state' = handle_results(Head(chan).items).state
    /\ chan' = Tail(chan)
    /\ delivered' = Append(delivered, Head(chan).id)
    /\ input' = <<>>
    /\ cursor' = 0
    /\ Continue
    /\ UNCHANGED <<raw_mode, alt_screen, show_help,
                   tasks, editor, overflow_checks, parseVars>>

\* Some(results) = self.rx.recv() => self.handle_results(results)
RecvResults ==
    /\ pc = "select"
    /\ chan # <<>>
    /\ results' = handle_results(Head(chan).items).results
    /\ state' = handle_results(Head(chan).items).state
    /\ chan' = Tail(chan)
    /\ delivered' = Append(delivered, Head(chan).id)
    /\ Continue
    /\ UNCHANGED <<raw_mode, alt_screen, input, cursor, show_help,
                   tasks, editor, overflow_checks, parseVars>>

\* ------------------------------------------------------------------------
\* The spawned search task
\* ------------------------------------------------------------------------
\* execute_rg(&input).await ... ?: an Err ends the task, a panic runs the
\* hook and ends the task, Ok goes on to tx.send
TaskRun(id) ==
    /\ Alive
    /\ tasks[id].phase = "spawned"
    /\ \E out \in CommandOutcomes :
        LET r == execute_rg(tasks[id].query, out, overflow_checks)
        IN  /\ tasks' = [tasks EXCEPT ![id] =
                    [@ EXCEPT !.phase = IF r.result = "Ok" THEN "sending" ELSE "done",
                              !.result = r.result, !.items = r.items,
                              !.error = r.error, !.proc = r.proc]]
            /\ IF r.result = "Panic" THEN HookShutdown
               ELSE UNCHANGED <<raw_mode, alt_screen>>
    /\ UNCHANGED <<pc, res, input, cursor, results, state, show_help,
                   chan, delivered, editor, overflow_checks, parseVars>>

\* the send into a channel without a bound
TaskSend_unbounded(id) ==
    /\ Alive
    /\ tasks[id].phase = "sending"
    /\ chan' = Append(chan, [id |-> id, items |-> tasks[id].items])
    /\ tasks' = [tasks EXCEPT ![id] = [@ EXCEPT !.phase = "done"]]
    /\ UNCHANGED <<pc, res, raw_mode, alt_screen, input, cursor, results, state,
                   show_help, delivered, editor, overflow_checks, parseVars>>

\* the send not waiting for room: the result is dropped when the channel
\* is full
TaskSend_try_send(id) ==
    /\ Alive
    /\ tasks[id].phase = "sending"
    /\ chan' = IF Len(chan) < CHANNEL_CAPACITY
               THEN Append(chan, [id |-> id, items |-> tasks[id].items])
               ELSE chan
    /\ tasks' = [tasks EXCEPT ![id] = [@ EXCEPT !.phase = "done"]]
    /\ UNCHANGED <<pc, res, raw_mode, alt_screen, input, cursor, results, state,
                   show_help, delivered, editor, overflow_checks, parseVars>>

\* tx.send(rg_items).await: waits while the channel is full
TaskSend(id) ==
    /\ Alive
    /\ tasks[id].phase = "sending"
    /\ Len(chan) < CHANNEL_CAPACITY
    /\ chan' = Append(chan, [id |-> id, items |-> tasks[id].items])
    /\ tasks' = [tasks EXCEPT ![id] = [@ EXCEPT !.phase = "done"]]
    /\ UNCHANGED <<pc, res, raw_mode, alt_screen, input, cursor, results, state,
                   show_help, delivered, editor, overflow_checks, parseVars>>

Next ==
    \/ ConfigLoad
    \/ TuiSetup
    \/ TuiShutdown
    \/ Render
    \/ KeyEsc
    \/ EventError
    \/ OtherEvent
    \/ KeyUp
    \/ KeyDown
    \/ KeyEnter
    \/ KeyHelp
    \/ \E key \in EditKeys \cup ListKeys : KeyOther(key)
    \/ RecvResults
    \/ \E id \in DOMAIN tasks : TaskRun(id)
    \/ \E id \in DOMAIN tasks : TaskSend(id)

Spec == Init /\ [][Next]_vars

\* ------------------------------------------------------------------------
\* The loop under load and under fair scheduling
\* ------------------------------------------------------------------------
\* the result of an earlier search with an empty query, waiting in the channel
EarlierDelivery == [id |-> 0, items |-> <<>>]

\* the loop is running and has fallen behind: CHANNEL_CAPACITY results of
\* earlier searches (empty queries, whose tasks have ended) fill the channel
BacklogInit ==
    /\ pc = "render"
    /\ res = "none"
    /\ raw_mode = TRUE
    /\ alt_screen = TRUE
    /\ input = <<>>
    /\ cursor = 0
    /\ results = <<>>
    /\ state = None
    /\ show_help = FALSE
    /\ tasks = <<>>
    /\ chan = [i \in 1..CHANNEL_CAPACITY |-> EarlierDelivery]
    /\ delivered = <<>>
    /\ editor = None
    /\ overflow_checks \in BOOLEAN
    /\ stdout = <<>>
    /\ parser = Idle

\* the loop while the user types characters and leaves with Escape, the
\* terminal sends other events, and the search tasks run; the navigation,
\* Enter and help keys, which touch neither the tasks nor the channel, stay
\* unpressed
LoadNext ==
    \/ Render
    \/ KeyEsc
    \/ OtherEvent
    \/ \E key \in InputChars : KeyOther(key)
    \/ RecvResults
    \/ \E id \in DOMAIN tasks : TaskRun(id)
    \/ \E id \in DOMAIN tasks : TaskSend(id)

\* tokio::select! without `biased` polls its ready branches in random order,
\* so a delivery that is ready again and again is taken; the channel's
\* semaphore serves waiting senders in order, so a sender that finds room
\* again and again gets it; render returns
Fairness ==
    /\ WF_vars(Render)
    /\ SF_vars(RecvResults)
    /\ \A id \in 1..MaxSubmissions : SF_vars(id \in DOMAIN tasks /\ TaskSend(id))

LoadSpec == BacklogInit /\ [][LoadNext]_vars

LiveSpec == LoadSpec /\ Fairness

\* ------------------------------------------------------------------------
\* Statements about the event loop, the search tasks and main()
\* ------------------------------------------------------------------------
Last(s) == s[Len(s)]
ChanIds == {chan[i].id : i \in DOMAIN chan}
DeliveredIds == Range(delivered)
Ended(id) == tasks[id].phase = "done"
LaunchOutcome(id, kind) == IsSome(tasks[id].proc) /\ Unwrap(tasks[id].proc).kind = kind

\* a step that submits a search (a task is spawned)
Submits == Len(tasks') = Len(tasks) + 1
\* a step that applies a delivery
Delivers == delivered' # delivered /\ delivered' # <<>>

\* C1: the displayed list is always the result set delivered last, whatever
\* the order of the submissions (no delivery is dropped as stale), and a new
\* submission leaves the tasks in flight and the channel as they are.
C1_LastDeliveryWins ==
    /\ [](delivered # <<>> => results = tasks[Last(delivered)].items)
    /\ [][Submits => /\ \A id \in DOMAIN tasks : tasks'[id] = tasks[id]
                     /\ chan' = chan]_vars

\* C1 (witness): submission 2 was delivered before submission 1, their result
\* sets differ, and the list shows the result set of submission 1.
C1_Witness ==
    /\ delivered = <<2, 1>>
    /\ tasks[1].items # tasks[2].items
    /\ results = tasks[1].items

\* C2: the selected index is none or below the length of the result list.
C2_SelectionInvariant ==
    IsSome(state) => Unwrap(state) < Len(results)

\* C5: a search whose launch fails with "not found" ends in the error
\* "ripgrep is not installed", which differs from the error of any other
\* launch failure; it is never enqueued or delivered, and the step in which it
\* ends leaves the result list, the selection and the input as they were.
C5_MissingBinary ==
    /\ [](\A id \in DOMAIN tasks :
            /\ LaunchOutcome(id, "NotFound") =>
                  /\ Ended(id)
                  /\ tasks[id].result = "Err"
                  /\ tasks[id].error = NotInstalled
                  /\ id \notin ChanIds \cup DeliveredIds
            /\ LaunchOutcome(id, "IoError") =>
                  /\ tasks[id].result = "Err"
                  /\ tasks[id].error # NotInstalled)
    /\ [][\A id \in DOMAIN tasks \cap DOMAIN tasks' :
            (tasks[id].phase = "spawned" /\ LaunchOutcome(id, "NotFound")')
                => UNCHANGED <<results, state, input, cursor, chan, delivered>>]_vars

\* C5 (witness): a search ended with the missing-binary error while a
\* non-empty list with a selection is displayed.
C5_Witness ==
    /\ pc = "select"
    /\ results # <<>>
    /\ IsSome(state)
    /\ \E id \in DOMAIN tasks : LaunchOutcome(id, "NotFound") /\ Ended(id)

\* C6: run() returns only on Escape (Ok) or on a failure to read a terminal
\* event or to render; a failed search or a failed editor launch does not end
\* the loop.
C6_OnlyTerminalFailuresFatal ==
    (pc \in {"shutdown", "exited"} /\ res \notin {ConfigFailed, SetupFailed})
        => res \in {"Ok", EventFailed, RenderFailed}

\* C7: once the process has ended, raw mode is disabled and the alternate
\* screen is left, on every exit path.
C7_TerminalRestored ==
    pc \in {"exited", "panicked"} => ~raw_mode /\ ~alt_screen

\* C8: a search whose process exits with a non-zero status ends in the error
\* "Failed to run ripgrep"; its output is not parsed into a result set and
\* nothing is enqueued or delivered.
C8_NonZeroExitFails ==
    \A id \in DOMAIN tasks :
        (LaunchOutcome(id, "Output") /\ Unwrap(tasks[id].proc).status # 0) =>
            /\ Ended(id)
            /\ tasks[id].result = "Err"
            /\ tasks[id].error = FailedToRun
            /\ id \notin ChanIds \cup DeliveredIds

\* C9 (as claimed): the step that submits an empty query leaves the displayed
\* list empty.
C9_EmptyQuerySynchronous ==
    [][(Submits /\ Last(tasks').query = <<>>) => results' = <<>>]_vars

\* C9 (amended): a search task with an empty query launches no subprocess and
\* yields the empty result set; the submitting step leaves the displayed list
\* and the channel as they are, and the list becomes empty in the step that
\* applies the task's delivery.
C9_EmptyQueryDelivered ==
    /\ [](\A id \in DOMAIN tasks :
            (tasks[id].query = <<>> /\ tasks[id].phase # "spawned") =>
                /\ ~IsSome(tasks[id].proc)
                /\ tasks[id].result = "Ok"
                /\ tasks[id].items = <<>>)
    /\ [][Submits => results' = results /\ state' = state /\ chan' = chan]_vars
    /\ [][(Delivers /\ tasks[Last(delivered')].query = <<>>)
            => results' = <<>> /\ state' = None]_vars

\* C9 (witness): an empty query was submitted after a search whose non-empty
\* result set had been displayed, and its delivery has emptied the list.
C9_Witness ==
    /\ Len(delivered) = 2
    /\ tasks[delivered[1]].items # <<>>
    /\ tasks[delivered[2]].query = <<>>
    /\ delivered[1] < delivered[2]
    /\ results = <<>>

\* C11: every delivery selects index 0 when the delivered list is non-empty
\* and nothing when it is empty, whatever was displayed and selected before.
C11_ReplaceResetsSelection ==
    [][Delivers =>
        /\ results' = tasks[Last(delivered')].items
        /\ state' = IF results' = <<>> THEN None ELSE Some(0)]_vars

\* C11 (witness): two different non-empty lists were delivered one after the
\* other, and the second is displayed with its first item selected.
C11_Witness ==
    /\ pc = "render"
    /\ Len(delivered) = 2
    /\ tasks[delivered[1]].items # <<>>
    /\ tasks[delivered[2]].items # <<>>
    /\ tasks[delivered[1]].items # tasks[delivered[2]].items
    /\ results = tasks[delivered[2]].items
    /\ state = Some(0)

\* C12: over a non-empty list of length n with the help hidden, Down moves
\* the selection from i to i+1 and from n-1 to 0, Up from i to i-1 and from 0
\* to n-1; neither changes the result list or the input.
C12_WrapAround ==
    /\ [][(KeyDown /\ results # <<>>) =>
            /\ IsSome(state) /\ Unwrap(state) < Len(results)
            /\ state' = Some(IF Unwrap(state) = Len(results) - 1 THEN 0
                             ELSE Unwrap(state) + 1)
            /\ UNCHANGED <<results, input, cursor>>]_vars
    /\ [][(KeyUp /\ results # <<>>) =>
            /\ IsSome(state) /\ Unwrap(state) < Len(results)
            /\ state' = Some(IF Unwrap(state) = 0 THEN Len(results) - 1
                             ELSE Unwrap(state) - 1)
            /\ UNCHANGED <<results, input, cursor>>]_vars

\* C12 (witness): the last of three items is selected, which only Up from
\* the first item or two Downs reach.
C12_Witness ==
    /\ pc = "render"
    /\ Len(results) = 3
    /\ state = Some(2)

\* a step that handles a terminal event other than Escape and leaves the
\* help flag as it is
HandlesEventKeepingHelp ==
    /\ pc = "select"
    /\ pc' = "render"
    /\ delivered' = delivered
    /\ show_help' = show_help

\* C15: while the help is shown, a key other than '?' and Escape leaves the
\* input, the result list and the selection unchanged and launches neither a
\* search nor the editor; '?' can be handled in every state of the loop, it
\* flips the help flag and changes nothing else.
C15_HelpGating ==
    /\ [][(show_help /\ HandlesEventKeepingHelp) =>
            UNCHANGED <<input, cursor, results, state, tasks, chan, editor>>]_vars
    /\ [](pc = "select" => ENABLED KeyHelp)
    /\ [][(pc = "select" /\ show_help' # show_help) =>
            /\ show_help' = ~show_help
            /\ pc' = "render"
            /\ UNCHANGED <<input, cursor, results, state, tasks, chan,
                           delivered, editor>>]_vars

\* C15 (witness): the help is shown over a typed query and a displayed list
\* with a selection, after an event was handled.
C15_Witness ==
    /\ pc = "render"
    /\ show_help
    /\ input # <<>>
    /\ results # <<>>
    /\ IsSome(state)

\* the complete record sequence execute_rg returns for task id
WholeOutput(id) ==
    /\ tasks[id].result = "Ok"
    /\ IF tasks[id].query = <<>> THEN tasks[id].items = <<>>
       ELSE /\ LaunchOutcome(id, "Output")
            /\ ParseTable[Unwrap(tasks[id].proc).stdout, overflow_checks].status = "ok"
            /\ tasks[id].items =
                 ParseTable[Unwrap(tasks[id].proc).stdout, overflow_checks].results

\* C16: whenever the loop renders, the displayed list is the initial empty
\* list or the complete record sequence of the output of one search.
C16_AtomicSwap ==
    pc = "render" =>
        IF delivered = <<>> THEN results = <<>>
        ELSE /\ WholeOutput(Last(delivered))
             /\ results = tasks[Last(delivered)].items

\* C16 (witness): a render after two searches with different non-empty
\* record sequences were delivered.
C16_Witness ==
    /\ pc = "render"
    /\ Len(delivered) = 2
    /\ Len(tasks[delivered[1]].items) = 3
    /\ Len(tasks[delivered[2]].items) = 2
    /\ Len(results) = 2

\* C17: applying a delivery leaves the query text, the input cursor and the
\* help flag unchanged.
C17_InputUntouched ==
    [][Delivers => UNCHANGED <<input, cursor, show_help>>]_vars

\* C17 (witness): an empty list was delivered while a query is typed and the
\* help is shown.
C17_Witness ==
    /\ pc = "render"
    /\ delivered # <<>>
    /\ tasks[Last(delivered)].items = <<>>
    /\ input # <<>>
    /\ cursor = Len(input)
    /\ show_help

\* C18: a search is submitted in exactly the steps that change the query
\* text, and it carries the text after the change.
C18_OneSubmissionPerChange ==
    [][/\ Submits <=> (pc = "select" /\ input' # input)
       /\ Submits => Last(tasks').query = input']_vars

\* C19: Up and Down over an empty list neither panic nor produce the wrapped
\* value of 0 - 1 as the selection.
C19_NoUnderflow ==
    /\ ~(pc = "panicked" /\ results = <<>>)
    /\ IsSome(state) => Unwrap(state) # UsizeModulus - 1

\* C22: the result set of a search task that has succeeded is applied to the
\* displayed list unless the loop ends, also when the task found the channel
\* full; a pending delivery can be received whenever the loop waits for an
\* event.
C22_EventualDelivery ==
    /\ \A id \in 1..MaxSubmissions :
          (Alive /\ id \in DOMAIN tasks /\ tasks[id].result = "Ok")
              ~> (~Alive \/ id \in DeliveredIds)
    /\ []((pc = "select" /\ chan # <<>>) => ENABLED RecvResults)
    /\ [][Delivers => results' = Head(chan).items]_vars

\* C22 (witness): the result of submission 1, whose task found the channel
\* full, has been applied after the results that filled the channel.
C22_Witness ==
    /\ Alive
    /\ Len(delivered) > CHANNEL_CAPACITY
    /\ 1 \in DeliveredIds
    /\ results = tasks[1].items
    /\ results # <<>>

\* the task of submission id has succeeded and sent its result
HasSent(id) == tasks[id].result = "Ok" /\ tasks[id].phase = "done"

\* how often the result of submission id is in the channel or was applied
Occurrences(id) ==
    Cardinality({i \in DOMAIN chan : chan[i].id = id})
    + Cardinality({i \in DOMAIN delivered : delivered[i] = id})

\* C23: the channel never holds more than CHANNEL_CAPACITY results; while
\* the loop runs, the result of every search that succeeded and has sent is
\* in the channel or applied exactly once, no other result is, and none of
\* the results that were waiting is lost; a step leaves the channel as it
\* is, enqueues the result of one sending task at its end, or applies the
\* result at its head in one loop iteration.
C23_ChannelDiscipline ==
    /\ [](Len(chan) <= CHANNEL_CAPACITY)
    /\ [](Alive =>
            /\ \A id \in DOMAIN tasks :
                  Occurrences(id) = IF HasSent(id) THEN 1 ELSE 0
            /\ Len(chan) + Len(delivered) =
                  CHANNEL_CAPACITY + Cardinality({id \in DOMAIN tasks : HasSent(id)}))
    /\ [][Alive' =>
            \/ UNCHANGED <<chan, delivered>>
            \/ /\ \E id \in DOMAIN tasks :
                     /\ tasks[id].phase = "sending"
                     /\ chan' = Append(chan, [id |-> id, items |-> tasks[id].items])
               /\ delivered' = delivered
            \/ /\ chan # <<>>
               /\ chan' = Tail(chan)
               /\ delivered' = Append(delivered, Head(chan).id)
               /\ results' = Head(chan).items
               /\ pc = "select" /\ pc' = "render"]_vars

\* C23 (witness): the channel is full, its last entry is the result of
\* submission 1, and the task of submission 2 is waiting for room.
C23_Witness ==
    /\ Alive
    /\ Len(chan) = CHANNEL_CAPACITY
    /\ Last(chan).id = 1
    /\ Len(tasks) = 2
    /\ tasks[2].phase = "sending"

\* C24: Escape can be handled in every state in which the loop waits for an
\* event; handling it ends run() with Ok, leaves input, result list and
\* selection as they are and launches neither a search nor the editor, and
\* main() then returns Ok.
C24_EscapeTerminates ==
    /\ [](pc = "select" => ENABLED KeyEsc)
    /\ [][KeyEsc =>
            /\ pc' = "shutdown"
            /\ res' = "Ok"
            /\ UNCHANGED <<input, cursor, results, state, show_help, editor>>
            /\ ~Submits]_vars
    /\ [][(pc = "shutdown" /\ res = "Ok") => (pc' = "exited" /\ res' = "Ok")]_vars

\* C24 (witness): run() has returned Ok while the help was shown over a typed
\* query and a displayed list.
C24_Witness ==
    /\ pc = "shutdown"
    /\ res = "Ok"
    /\ show_help
    /\ input # <<>>
    /\ results # <<>>

\* C25: with the help hidden, Enter over a non-empty list spawns the editor
\* once, with "<file>:<line>" of the record at the selected index, and goes
\* on with the loop (or the spawn fails and nothing is launched); Enter over
\* an empty list launches nothing; in both cases input, result list and
\* selection stay as they are.
C25_EnterLaunchesEditor ==
    [][KeyEnter =>
        /\ UNCHANGED <<input, cursor, results, state, show_help>>
        /\ ~Submits
        /\ IF results = <<>>
           THEN editor' = editor /\ pc' = "render"
           ELSE /\ IsSome(state) /\ Unwrap(state) < Len(results)
                /\ \/ /\ editor' =
                           Some(results[Unwrap(state) + 1].filename \o <<":">>
                                \o FormatNum(results[Unwrap(state) + 1].line_number))
                      /\ pc' = "render"
                   \/ editor' = editor /\ res' = EditorFailed]_vars

\* C25 (witness): the editor was spawned on the second of the displayed
\* records, at F:1.
C25_Witness ==
    /\ pc = "render"
    /\ Len(results) = 2
    /\ state = Some(1)
    /\ editor = Some(<<"F", ":", "1">>)

\* C26: whenever the result list is non-empty, the index selected_item reads
\* (the selected index, 0 when there is none) is below the length of the list.
C26_SelectedItemInBounds ==
    results # <<>> =>
        (IF IsSome(state) THEN Unwrap(state) ELSE 0) < Len(results)

\* C26 (witness): a list of two records was delivered after a list of three,
\* and its last record is selected.
C26_Witness ==
    /\ Alive
    /\ Len(delivered) = 2
    /\ Len(tasks[delivered[1]].items) = 3
    /\ Len(results) = 2
    /\ state = Some(1)

\* ------------------------------------------------------------------------
\* Reading the text handed to the parser, for the statements below
\* ------------------------------------------------------------------------
OutLines == Split(stdout, "\n")

DigitRun(l) == SubSeq(l, 1, Len(l) - Len(trim_start_matches_digit(l)))
AfterDigits(l) == trim_start_matches_digit(l)

IsNumbered(l) ==
    /\ starts_with_digit(l)
    /\ AfterDigits(l) # <<>>
    /\ Head(AfterDigits(l)) \in {"-", ":"}
    /\ IsSome(parse_u16(DigitRun(l)))
IsMatchLine(l) == IsNumbered(l) /\ Head(AfterDigits(l)) = ":"
LineNumber(l) == Unwrap(parse_u16(DigitRun(l)))
LineText(l) == Tail(AfterDigits(l))

\* a digit-led line that is neither a context line nor a match line
IsMalformed(l) == starts_with_digit(l) /\ ~IsNumbered(l)

\* positions i and j of the output lie in one block: no blank line and no
\* file header between them
SameBlock(i, j) ==
    \A k \in (IF i < j THEN i ELSE j)..(IF i < j THEN j ELSE i) :
        starts_with_digit(OutLines[k])

\* C3: every line of a record's context_text is the text of an output line in
\* the same blank-line-delimited block, under the same file header, as the
\* record's match line; lines of a later block never enter an earlier
\* match's post-context.
C3_NoContextLeak ==
    parser.status = "ok" =>
        \A k \in 1..Len(parser.results) :
            LET r == parser.results[k]
            IN  \A t \in Range(Split(r.context, "\n")) :
                    \E i, j \in 2..Len(OutLines) :
                        /\ IsMatchLine(OutLines[j])
                        /\ LineNumber(OutLines[j]) = r.line_number
                        /\ LineText(OutLines[j]) = r.matched_line
                        /\ IsNumbered(OutLines[i])
                        /\ LineText(OutLines[i]) = t
                        /\ SameBlock(i, j)

\* the record the round trip expects of SingleBlock(m, p, q, FALSE)
BlockRecord(m, p, q) ==
    [filename |-> FirstHeader, line_number |-> m, matched_line |-> TextAt(p + 1),
     context |-> Join([j \in 1..(p + q + 1) |-> TextAt(j)], "\n")]

\* C4: a header line followed by one unbroken block of context lines
\* m-p..m-1, match line m and context lines m+1..m+q parses to exactly one
\* record: the header, m, the text of line m, and the texts of lines
\* m-p..m+q newline-joined in ascending order.
C4_ParserRoundTrip ==
    ParserDone =>
        \A x \in BlockParams :
            (~x[4] /\ stdout = SingleBlock(x[1], x[2], x[3], FALSE)) =>
                /\ parser.status = "ok"
                /\ parser.results = <<BlockRecord(x[1], x[2], x[3])>>

\* C10: when a line after the first starts with a digit and is not
\* "<u16 digits>-..." or "<u16 digits>:...", parsing ends in an error (not a
\* fault) and returns no record.
C10_MalformedIsError ==
    ParserDone =>
        ((\E i \in 2..Len(OutLines) : IsMalformed(OutLines[i])) =>
            parser.status = "err")

\* the texts of the lines of ctx numbered lo..hi, in ascending order of
\* their numbers
WindowLines(ctx, lo, hi) ==
    LET S == {n \in DOMAIN ctx : lo <= n /\ n <= hi}
    IN  [i \in 1..Cardinality(S) |->
            ctx[CHOOSE n \in S : Cardinality({k \in S : k < n}) = i - 1]]

\* a step of the loop that reads a match line and goes on
ReadsMatch ==
    /\ parser.status = "scan"
    /\ parser.output # <<>>
    /\ IsMatchLine(Head(parser.output))
    /\ parser'.status = "scan"

\* C13: when a match line m is read, the pre-context of its record is the
\* texts of exactly the line numbers of m-N..m-1 that the context map holds at
\* that moment, in ascending order; numbers it does not hold are skipped.
C13_ContextTruncation ==
    [][ReadsMatch =>
        LET m == LineNumber(Head(parser.output))
        IN  /\ IsSome(parser'.builder)
            /\ Unwrap(parser'.builder).line_number = m
            /\ Unwrap(parser'.builder).matched_line = LineText(Head(parser.output))
            /\ Unwrap(parser'.builder).pre_context =
                   WindowLines(parser'.ctx, m - CTX_LINES, m - 1)]_vars

\* C13 (witness): lines 2 and 5 precede the match at line 7, and the
\* pre-context of the match is line 5 alone (line 2 is outside the window,
\* lines 3, 4 and 6 are absent).
C13_Witness ==
    /\ parser.status = "scan"
    /\ IsSome(parser.builder)
    /\ Unwrap(parser.builder).line_number = 7
    /\ DOMAIN parser.ctx = {2, 5, 7}
    /\ Unwrap(parser.builder).pre_context = <<TextAt(2)>>

\* C14: two match lines a < b at most N apart in one unbroken block give two
\* records; the text of line a is the pre-context of b's record and the text
\* of line b is the post-context of a's record.
C14_MultiMatchBlock ==
    ParserDone =>
        \A x \in MatchPairs :
            stdout = TwoMatches(x[1], x[2]) =>
                /\ parser.status = "ok"
                /\ parser.results =
                     << [filename |-> FirstHeader, line_number |-> x[1],
                         matched_line |-> TextAt(1),
                         context |-> Join(<<TextAt(1), TextAt(2)>>, "\n")],
                        [filename |-> FirstHeader, line_number |-> x[2],
                         matched_line |-> TextAt(2),
                         context |-> Join(<<TextAt(1), TextAt(2)>>, "\n")] >>

\* C20: a block that ends with the output's final newline gives the same
\* record as the block without it: the match keeps the context lines
\* m+1..m+q that follow it (blocks whose window m+N leaves the 16-bit range
\* are left aside).
C20_TrailingContextKept ==
    ParserDone =>
        \A x \in BlockParams :
            (x[4] /\ x[1] + CTX_LINES < U16Modulus
                  /\ stdout = SingleBlock(x[1], x[2], x[3], TRUE)) =>
                /\ parser.status = "ok"
                /\ parser.results = <<BlockRecord(x[1], x[2], x[3])>>

\* a well-formed output: after the first line every line is blank, a file
\* header (not digit-led) or a numbered line
WellFormed == \A i \in 2..Len(OutLines) : ~IsMalformed(OutLines[i])

\* the positions of the match lines, and the k-th of them in output order
MatchPositions == {i \in 2..Len(OutLines) : IsMatchLine(OutLines[i])}
MatchPosition(k) ==
    CHOOSE i \in MatchPositions : Cardinality({j \in MatchPositions : j < i}) = k - 1

\* the file header in force at position i: the nearest line before it that
\* is the first line or a non-empty line not led by a digit
IsHeader(j) == j = 1 \/ (OutLines[j] # <<>> /\ ~starts_with_digit(OutLines[j]))
HeaderAt(i) ==
    OutLines[CHOOSE j \in 1..(i - 1) :
                IsHeader(j) /\ \A k \in (j + 1)..(i - 1) : ~IsHeader(k)]

\* C21: a well-formed output parses to one record per match line, in the
\* order of the match lines, each with the file header in force, the line
\* number and the text of its match line; an output without match lines
\* gives the empty sequence.
C21_OneRecordPerMatch ==
    (ParserDone /\ WellFormed) =>
        /\ parser.status = "ok"
        /\ Len(parser.results) = Cardinality(MatchPositions)
        /\ \A k \in 1..Len(parser.results) :
              LET l == OutLines[MatchPosition(k)]
              IN  /\ parser.results[k].filename = HeaderAt(MatchPosition(k))
                  /\ parser.results[k].line_number = LineNumber(l)
                  /\ parser.results[k].matched_line = LineText(l)

\* C27: for every match line number the parser accepts, the bounds of the
\* context ranges are computed within 16 bits: no build panics on them, and
\* no record is finalized from bounds that wrapped.
C27_WindowArithmetic ==
    parser.status \in {"scan", "ok", "err", "panic"} =>
        /\ parser.status # "panic"
        /\ \A k \in 1..Len(parser.results) :
              parser.results[k].line_number + CTX_LINES < U16Modulus

====
